---- MODULE Spec2Model ----
(***************************************************************************)
(* A model of package websocket (src/websocket/websocket.go): the inbound  *)
(* upgrade server (StartProxyServer, handler.ServeHTTP), the keepalive     *)
(* pinger, the duplex bridge (Stream), the byte-stream wrapper (Conn.Read) *)
(* and the SSH preamble writer (SendSSHPreamble).                          *)
(*                                                                         *)
(* Five state machines share the module.  Each has its own variables and   *)
(* leaves the others' untouched:                                           *)
(*   Spec / SpecLive  the server, one request handler with its pinger and  *)
(*                    its two copy goroutines, the peers and the shutdown  *)
(*   SpecPreamble     one call of SendSSHPreamble on a stream, and the     *)
(*                    stream's reader                                      *)
(*   SpecRead         successive Conn.Read calls on a websocket connection *)
(*   SpecHeaders      one call of websocketHeaders                         *)
(*   SpecKeepalive    the read deadline of an UpgradeConnection under a    *)
(*                    clock: ServeHTTP, the pong callback, pinger          *)
(***************************************************************************)
EXTENDS Integers, Sequences, FiniteSets, TLC

\* ------------------------------------------------------------------ bounds
\* Requests the listener accepts in one behaviour.
MaxRequests == 3
\* Ticks of the pinger's ticker in one request.
MaxPings == 2
\* Keys in a request's header set.
MaxHeaders == 3
\* Pongs the peer sends on one connection.
MaxPongs == 2
\* The clock stops here.
MaxTime == 120

\* ------------------------------------------------------------- the server
VARIABLES
    staticHost,        \* handler.staticHost ("" when --destination is unset)
    serverState,       \* httpServer: "serving" or "closed"
    shutdownC,         \* the shutdown channel: "open" or "closed" (signalled)
    nreq,              \* requests accepted so far
    req,               \* the request being handled
    hpc,               \* where ServeHTTP is
    finalDestination,  \* ServeHTTP's local finalDestination
    dialTarget,        \* the address net.Dial was called with, NoDial if not called
    stream,            \* the BackendConnection: "none", "open", "closed"
    streamCloses,      \* calls of stream.Close()
    response,          \* what ServeHTTP wrote to w: "none" or "page"
    upgradeCalls,      \* calls of h.upgrader.Upgrade
    conn,              \* the UpgradeConnection: "none", "open", "closed"
    connCloses,        \* calls of conn.Close()
    logged,            \* the error ServeHTTP logged: "none", "nodest", "dial", "upgrade"
    doneSends,         \* completed sends on the done channel
    streamCalls,       \* calls of h.streamHandler
    ppc,               \* where pinger is: "none", "select", "write", "stopped"
    pings,             \* calls of ws.WriteControl(PingMessage)
    pingRes,           \* result of the last WriteControl: "none", "ok", "err"
    task,              \* the two copy goroutines of Stream
    proxyDone,         \* items buffered in Stream's proxyDone channel
    wsPeerErr,         \* the websocket peer closed or failed: reads of conn fail
    beEOF              \* the backend reached end-of-stream: reads of stream end

srvVars == <<staticHost, serverState, shutdownC, nreq, req, hpc, finalDestination,
             dialTarget, stream, streamCloses, response, upgradeCalls, conn,
             connCloses, logged, doneSends, streamCalls, ppc, pings, pingRes,
             task, proxyDone, wsPeerErr, beEOF>>

NoDial == "<no dial>"
StaticHosts == {"", "static:22"}
JumpHeaders == {"", "jump:22"}
\* A request: the value of the routing header and whether it asks for an upgrade.
Requests == [hdr : JumpHeaders, upgrade : BOOLEAN]
Dirs == {"toConn", "toBackend"}
ProxyDoneCap == 2

InitRequest ==
    /\ hpc = "idle"
    /\ req = [hdr |-> "", upgrade |-> FALSE]
    /\ finalDestination = ""
    /\ dialTarget = NoDial
    /\ stream = "none"
    /\ streamCloses = 0
    /\ response = "none"
    /\ upgradeCalls = 0
    /\ conn = "none"
    /\ connCloses = 0
    /\ logged = "none"
    /\ doneSends = 0
    /\ streamCalls = 0
    /\ ppc = "none"
    /\ pings = 0
    /\ pingRes = "none"
    /\ task = [d \in Dirs |-> "none"]
    /\ proxyDone = 0
    /\ wsPeerErr = FALSE
    /\ beEOF = FALSE

InitSrv ==
    /\ staticHost \in StaticHosts
    /\ serverState = "serving"
    /\ shutdownC = "open"
    /\ nreq = 0
    /\ InitRequest

\* ------------------------------------------------- SendSSHPreamble's state
VARIABLES
    pDest,             \* the destination argument
    pToken,            \* the token argument
    ppos,              \* where SendSSHPreamble is
    pWire,             \* what the stream has received: the size bytes and the
                       \* number of payload bytes
    pErr,              \* the error returned: "pending", "nil", "too large", "write"
    pRecv              \* what the reader of the stream decoded, NoRecv before

preVars == <<pDest, pToken, ppos, pWire, pErr, pRecv>>

NoRecv == [ok |-> FALSE, why |-> "not read"]

\* --------------------------------------------------------- Conn.Read's state
VARIABLES
    rIncoming,         \* the messages the peer sent, not yet read
    rMessages,         \* the payloads ReadMessage has returned, concatenated
    rOut,              \* the bytes Read has returned to its caller, concatenated
    rLast,             \* the last Read's result: [n, err]
    rCalls             \* calls of Read

rdVars == <<rIncoming, rMessages, rOut, rLast, rCalls>>

\* ------------------------------------------------- websocketHeaders' state
VARIABLES
    hReq,              \* req.Header: the keys present and their values
    hHost,             \* req.Host
    hOut,              \* wsHeaders
    hpos,              \* where websocketHeaders is
    hi                 \* the index of the loop over stripWebsocketHeaders

hdrVars == <<hReq, hHost, hOut, hpos, hi>>

\* ------------------------------------------- the read deadline's state
VARIABLES
    kNow,              \* the clock, in seconds
    kDeadline,         \* the read deadline of the UpgradeConnection, 0 if not set
    khpc,              \* where ServeHTTP is
    kppc,              \* where pinger is
    krpc,              \* where the goroutine of io.Copy(backendConn, conn) is
    kwpc,              \* where the goroutine of io.Copy(conn, backendConn) is
    kPongHandler,      \* whether SetPongHandler has installed the callback
    kNextPing,         \* when the ticker fires next
    kWriteBy,          \* the deadline of the WriteControl under way
    kPongs,            \* pongs the peer has sent so far
    kInFlight,         \* pongs sent and not yet read
    kPongAt,           \* when the pong being handled was received, 0 if none is
    kArg,              \* the argument of each SetReadDeadline call under way
    kIn,               \* the goroutines inside SetReadDeadline
    kWriters           \* who has set the read deadline: <<goroutine, call site>>

kaVars == <<kNow, kDeadline, khpc, kppc, krpc, kwpc, kPongHandler, kNextPing,
            kWriteBy, kPongs, kInFlight, kPongAt, kArg, kIn, kWriters>>

vars == <<srvVars, preVars, rdVars, hdrVars, kaVars>>

\* A state machine that is not running keeps its variables at these values.
IdlePre ==
    /\ pDest = <<>>
    /\ pToken = <<>>
    /\ ppos = "off"
    /\ pWire = [size |-> <<>>, payload |-> 0]
    /\ pErr = "pending"
    /\ pRecv = NoRecv

IdleRd ==
    /\ rIncoming = <<>>
    /\ rMessages = <<>>
    /\ rOut = <<>>
    /\ rLast = [n |-> 0, err |-> FALSE]
    /\ rCalls = 0

NoHeaders == [k \in {} |-> <<>>]

IdleHdr ==
    /\ hReq = NoHeaders
    /\ hHost = ""
    /\ hOut = NoHeaders
    /\ hpos = "off"
    /\ hi = 0

KTasks == {"handler", "pinger", "reader", "writer"}

KaRequest ==
    /\ kNow = 0
    /\ kDeadline = 0
    /\ kppc = "none"
    /\ krpc = "none"
    /\ kwpc = "none"
    /\ kPongHandler = FALSE
    /\ kNextPing = 0
    /\ kWriteBy = 0
    /\ kPongs = 0
    /\ kInFlight = 0
    /\ kPongAt = 0
    /\ kArg = [t \in KTasks |-> 0]
    /\ kIn = {}
    /\ kWriters = {}

IdleKa ==
    /\ khpc = "off"
    /\ KaRequest

IdleSrv ==
    /\ staticHost = ""
    /\ serverState = "closed"
    /\ shutdownC = "closed"
    /\ nreq = 0
    /\ InitRequest

auxOfSrv == <<preVars, rdVars, hdrVars, kaVars>>

\* ---------------------------------------------------- StartProxyServer
\* httpServer.Serve(listener) accepts a request and calls ServeHTTP for it.  One
\* handler is followed at a time: handlers share nothing but the read-only
\* handler struct, and a handler's goroutines are followed to their end before
\* the model turns to the next request.
Accept(r) ==
    /\ serverState = "serving"
    /\ hpc \in {"idle", "returned"}
    /\ \A d \in Dirs : task[d] \in {"none", "sent"}
    /\ nreq < MaxRequests
    /\ nreq' = nreq + 1
    /\ req' = r
    /\ hpc' = "resolve"
    /\ finalDestination' = ""
    /\ dialTarget' = NoDial
    /\ stream' = "none"
    /\ streamCloses' = 0
    /\ response' = "none"
    /\ upgradeCalls' = 0
    /\ conn' = "none"
    /\ connCloses' = 0
    /\ logged' = "none"
    /\ doneSends' = 0
    /\ streamCalls' = 0
    /\ ppc' = "none"
    /\ pings' = 0
    /\ pingRes' = "none"
    /\ task' = [d \in Dirs |-> "none"]
    /\ proxyDone' = 0
    /\ wsPeerErr' = FALSE
    /\ beEOF' = FALSE
    /\ UNCHANGED <<staticHost, serverState, shutdownC>>
    /\ UNCHANGED auxOfSrv

\* The owner of the server signals shutdown (closes shutdownC).
ShutdownSignal ==
    /\ shutdownC = "open"
    /\ shutdownC' = "closed"
    /\ UNCHANGED <<staticHost, serverState, nreq, req, hpc, finalDestination,
                   dialTarget, stream, streamCloses, response, upgradeCalls, conn,
                   connCloses, logged, doneSends, streamCalls, ppc, pings, pingRes,
                   task, proxyDone, wsPeerErr, beEOF>>
    /\ UNCHANGED auxOfSrv

\* Mutant of ServerClose: closing the server also closes the connections of
\* the handler that is running.
ServerCloseKillsHandlers ==
    /\ shutdownC = "closed"
    /\ serverState = "serving"
    /\ serverState' = "closed"
    /\ conn' = (IF conn = "open" THEN "closed" ELSE conn)
    /\ stream' = (IF stream = "open" THEN "closed" ELSE stream)
    /\ UNCHANGED <<staticHost, shutdownC, nreq, req, hpc, finalDestination,
                   dialTarget, streamCloses, response, upgradeCalls,
                   connCloses, logged, doneSends, streamCalls, ppc, pings, pingRes,
                   task, proxyDone, wsPeerErr, beEOF>>
    /\ UNCHANGED auxOfSrv

\* go func() { <-shutdownC; httpServer.Close() }()
ServerClose ==
    /\ shutdownC = "closed"
    /\ serverState = "serving"
    /\ serverState' = "closed"
    /\ UNCHANGED <<staticHost, shutdownC, nreq, req, hpc, finalDestination,
                   dialTarget, stream, streamCloses, response, upgradeCalls, conn,
                   connCloses, logged, doneSends, streamCalls, ppc, pings, pingRes,
                   task, proxyDone, wsPeerErr, beEOF>>
    /\ UNCHANGED auxOfSrv

\* ------------------------------------------------------ handler.ServeHTTP
\* Mutant of Resolve: the return after the "Did not receive final destination"
\* log is missing, so the handler goes on with the empty destination.
ResolveFallsThrough ==
    /\ hpc = "resolve"
    /\ finalDestination' = (IF staticHost # "" THEN staticHost ELSE req.hdr)
    /\ logged' = (IF staticHost = "" /\ req.hdr = "" THEN "nodest" ELSE logged)
    /\ hpc' = "dial"
    /\ UNCHANGED <<staticHost, serverState, shutdownC, nreq, req, dialTarget,
                   stream, streamCloses, response, upgradeCalls, conn, connCloses,
                   doneSends, streamCalls, ppc, pings, pingRes, task, proxyDone,
                   wsPeerErr, beEOF>>
    /\ UNCHANGED auxOfSrv

\* finalDestination := h.staticHost; if empty, the routing header; if that is
\* empty too, log and return.
Resolve ==
    /\ hpc = "resolve"
    /\ IF staticHost # ""
         THEN /\ finalDestination' = staticHost
              /\ hpc' = "dial"
              /\ UNCHANGED logged
         ELSE IF req.hdr = ""
                THEN /\ logged' = "nodest"
                     /\ hpc' = "returned"
                     /\ UNCHANGED finalDestination
                ELSE /\ finalDestination' = req.hdr
                     /\ hpc' = "dial"
                     /\ UNCHANGED logged
    /\ UNCHANGED <<staticHost, serverState, shutdownC, nreq, req, dialTarget,
                   stream, streamCloses, response, upgradeCalls, conn, connCloses,
                   doneSends, streamCalls, ppc, pings, pingRes, task, proxyDone,
                   wsPeerErr, beEOF>>
    /\ UNCHANGED auxOfSrv

\* Mutant of Dial: a dial error is fatal to the server (a log.Fatal in place of
\* the logged return).
DialFatal(ok) ==
    /\ hpc = "dial"
    /\ dialTarget' = finalDestination
    /\ IF ok
         THEN /\ stream' = "open"
              /\ hpc' = "check"
              /\ UNCHANGED <<logged, serverState>>
         ELSE /\ logged' = "dial"
              /\ hpc' = "returned"
              /\ serverState' = "closed"
              /\ UNCHANGED stream
    /\ UNCHANGED <<staticHost, shutdownC, nreq, req, finalDestination,
                   streamCloses, response, upgradeCalls, conn, connCloses,
                   doneSends, streamCalls, ppc, pings, pingRes, task, proxyDone,
                   wsPeerErr, beEOF>>
    /\ UNCHANGED auxOfSrv

\* stream, err := net.Dial("tcp", finalDestination); on an error log and return;
\* otherwise defer stream.Close().
Dial(ok) ==
    /\ hpc = "dial"
    /\ dialTarget' = finalDestination
    /\ IF ok
         THEN /\ stream' = "open"
              /\ hpc' = "check"
              /\ UNCHANGED logged
         ELSE /\ logged' = "dial"
              /\ hpc' = "returned"
              /\ UNCHANGED stream
    /\ UNCHANGED <<staticHost, serverState, shutdownC, nreq, req, finalDestination,
                   streamCloses, response, upgradeCalls, conn, connCloses,
                   doneSends, streamCalls, ppc, pings, pingRes, task, proxyDone,
                   wsPeerErr, beEOF>>
    /\ UNCHANGED auxOfSrv

\* Mutant of CheckUpgrade: a request that is no upgrade request is answered
\* with nothing.
CheckUpgradeSilent ==
    /\ hpc = "check"
    /\ hpc' = (IF req.upgrade THEN "upgrade" ELSE "closeStream")
    /\ UNCHANGED <<staticHost, serverState, shutdownC, nreq, req, finalDestination,
                   dialTarget, stream, streamCloses, response, upgradeCalls, conn,
                   connCloses, logged, doneSends, streamCalls, ppc, pings, pingRes,
                   task, proxyDone, wsPeerErr, beEOF>>
    /\ UNCHANGED auxOfSrv

\* if !websocket.IsWebSocketUpgrade(r) { w.Write(nonWebSocketRequestPage()); return }
CheckUpgrade ==
    /\ hpc = "check"
    /\ IF req.upgrade
         THEN /\ hpc' = "upgrade"
              /\ UNCHANGED response
         ELSE /\ response' = "page"
              /\ hpc' = "closeStream"
    /\ UNCHANGED <<staticHost, serverState, shutdownC, nreq, req, finalDestination,
                   dialTarget, stream, streamCloses, upgradeCalls, conn, connCloses,
                   logged, doneSends, streamCalls, ppc, pings, pingRes, task,
                   proxyDone, wsPeerErr, beEOF>>
    /\ UNCHANGED auxOfSrv

\* Mutant of Upgrade: stream.Close() is not deferred but called at the end of
\* the handler, so the return after a failed handshake skips it.
UpgradeLeaksStream(ok) ==
    /\ hpc = "upgrade"
    /\ upgradeCalls' = upgradeCalls + 1
    /\ IF ok
         THEN /\ conn' = "open"
              /\ hpc' = "setup"
              /\ UNCHANGED logged
         ELSE /\ logged' = "upgrade"
              /\ hpc' = "returned"
              /\ UNCHANGED conn
    /\ UNCHANGED <<staticHost, serverState, shutdownC, nreq, req, finalDestination,
                   dialTarget, stream, streamCloses, response, connCloses,
                   doneSends, streamCalls, ppc, pings, pingRes, task, proxyDone,
                   wsPeerErr, beEOF>>
    /\ UNCHANGED auxOfSrv

\* Mutant of Upgrade: the return after the "failed to upgrade" log is missing.
UpgradeIgnoresError(ok) ==
    /\ hpc = "upgrade"
    /\ upgradeCalls' = upgradeCalls + 1
    /\ conn' = (IF ok THEN "open" ELSE conn)
    /\ logged' = (IF ok THEN logged ELSE "upgrade")
    /\ hpc' = "setup"
    /\ UNCHANGED <<staticHost, serverState, shutdownC, nreq, req, finalDestination,
                   dialTarget, stream, streamCloses, response, connCloses,
                   doneSends, streamCalls, ppc, pings, pingRes, task, proxyDone,
                   wsPeerErr, beEOF>>
    /\ UNCHANGED auxOfSrv

\* conn, err := h.upgrader.Upgrade(w, r, nil); on an error log and return.
Upgrade(ok) ==
    /\ hpc = "upgrade"
    /\ upgradeCalls' = upgradeCalls + 1
    /\ IF ok
         THEN /\ conn' = "open"
              /\ hpc' = "setup"
              /\ UNCHANGED logged
         ELSE /\ logged' = "upgrade"
              /\ hpc' = "closeStream"
              /\ UNCHANGED conn
    /\ UNCHANGED <<staticHost, serverState, shutdownC, nreq, req, finalDestination,
                   dialTarget, stream, streamCloses, response, connCloses,
                   doneSends, streamCalls, ppc, pings, pingRes, task, proxyDone,
                   wsPeerErr, beEOF>>
    /\ UNCHANGED auxOfSrv

\* SetReadDeadline, SetPongHandler, done := make(chan struct{}),
\* go pinger(h.logger, conn, done), defer func() { done <- ...; conn.Close() }()
Setup ==
    /\ hpc = "setup"
    /\ ppc' = "select"
    /\ hpc' = "call"
    /\ UNCHANGED <<staticHost, serverState, shutdownC, nreq, req, finalDestination,
                   dialTarget, stream, streamCloses, response, upgradeCalls, conn,
                   connCloses, logged, doneSends, streamCalls, pings, pingRes,
                   task, proxyDone, wsPeerErr, beEOF>>
    /\ UNCHANGED auxOfSrv

\* h.streamHandler(&Conn{conn}, stream, r.Header) with DefaultStreamHandler:
\* Stream makes proxyDone, starts the two copy goroutines and waits on proxyDone.
CallStreamHandler ==
    /\ hpc = "call"
    /\ streamCalls' = streamCalls + 1
    /\ task' = [d \in Dirs |-> "copying"]
    /\ proxyDone' = 0
    /\ hpc' = "stream"
    /\ UNCHANGED <<staticHost, serverState, shutdownC, nreq, req, finalDestination,
                   dialTarget, stream, streamCloses, response, upgradeCalls, conn,
                   connCloses, logged, doneSends, ppc, pings, pingRes, wsPeerErr,
                   beEOF>>
    /\ UNCHANGED auxOfSrv

\* Mutant of StreamRecv: Stream receives twice from proxyDone, one item per
\* copy goroutine.
StreamRecvWaitsForBoth ==
    /\ hpc = "stream"
    /\ proxyDone >= 2
    /\ proxyDone' = proxyDone - 2
    /\ hpc' = "sendDone"
    /\ UNCHANGED <<staticHost, serverState, shutdownC, nreq, req, finalDestination,
                   dialTarget, stream, streamCloses, response, upgradeCalls, conn,
                   connCloses, logged, doneSends, streamCalls, ppc, pings, pingRes,
                   task, wsPeerErr, beEOF>>
    /\ UNCHANGED auxOfSrv

\* Mutant of StreamRecv: the deferred function closes the connection without
\* stopping pinger first.
StreamRecvClosesFirst ==
    /\ hpc = "stream"
    /\ proxyDone >= 1
    /\ proxyDone' = proxyDone - 1
    /\ hpc' = "closeConn"
    /\ UNCHANGED <<staticHost, serverState, shutdownC, nreq, req, finalDestination,
                   dialTarget, stream, streamCloses, response, upgradeCalls, conn,
                   connCloses, logged, doneSends, streamCalls, ppc, pings, pingRes,
                   task, wsPeerErr, beEOF>>
    /\ UNCHANGED auxOfSrv

\* <-proxyDone: Stream returns, so ServeHTTP's body ends and its deferred
\* function starts: it blocks on done <- struct{}{}.
StreamRecv ==
    /\ hpc = "stream"
    /\ proxyDone >= 1
    /\ proxyDone' = proxyDone - 1
    /\ hpc' = "sendDone"
    /\ UNCHANGED <<staticHost, serverState, shutdownC, nreq, req, finalDestination,
                   dialTarget, stream, streamCloses, response, upgradeCalls, conn,
                   connCloses, logged, doneSends, streamCalls, ppc, pings, pingRes,
                   task, wsPeerErr, beEOF>>
    /\ UNCHANGED auxOfSrv

\* Mutant of SendDone: pinger's done case does not return (a break, which
\* leaves the select and not the loop).
SendDoneKeepsPinging ==
    /\ hpc = "sendDone"
    /\ ppc = "select"
    /\ doneSends' = doneSends + 1
    /\ ppc' = "select"
    /\ hpc' = "closeConn"
    /\ UNCHANGED <<staticHost, serverState, shutdownC, nreq, req, finalDestination,
                   dialTarget, stream, streamCloses, response, upgradeCalls, conn,
                   connCloses, logged, streamCalls, pings, pingRes, task, proxyDone,
                   wsPeerErr, beEOF>>
    /\ UNCHANGED auxOfSrv

\* The unbuffered done channel: the send of the deferred function and the
\* receive of pinger's select happen together; pinger returns.
SendDone ==
    /\ hpc = "sendDone"
    /\ ppc = "select"
    /\ doneSends' = doneSends + 1
    /\ ppc' = "stopped"
    /\ hpc' = "closeConn"
    /\ UNCHANGED <<staticHost, serverState, shutdownC, nreq, req, finalDestination,
                   dialTarget, stream, streamCloses, response, upgradeCalls, conn,
                   connCloses, logged, streamCalls, pings, pingRes, task, proxyDone,
                   wsPeerErr, beEOF>>
    /\ UNCHANGED auxOfSrv

\* conn.Close() of the deferred function.
CloseConn ==
    /\ hpc = "closeConn"
    /\ conn' = "closed"
    /\ connCloses' = connCloses + 1
    /\ hpc' = "closeStream"
    /\ UNCHANGED <<staticHost, serverState, shutdownC, nreq, req, finalDestination,
                   dialTarget, stream, streamCloses, response, upgradeCalls, logged,
                   doneSends, streamCalls, ppc, pings, pingRes, task, proxyDone,
                   wsPeerErr, beEOF>>
    /\ UNCHANGED auxOfSrv

\* The deferred stream.Close(); ServeHTTP has returned.
CloseStream ==
    /\ hpc = "closeStream"
    /\ stream' = "closed"
    /\ streamCloses' = streamCloses + 1
    /\ hpc' = "returned"
    /\ UNCHANGED <<staticHost, serverState, shutdownC, nreq, req, finalDestination,
                   dialTarget, response, upgradeCalls, conn, connCloses, logged,
                   doneSends, streamCalls, ppc, pings, pingRes, task, proxyDone,
                   wsPeerErr, beEOF>>
    /\ UNCHANGED auxOfSrv

\* ------------------------------------------------ Stream's copy goroutines
\* "toConn" is io.Copy(conn, backendConn), "toBackend" is io.Copy(backendConn, conn).
\* A read of the source ends the copy when the source reports end-of-stream or
\* an error; otherwise the read blocks.
SrcEnded(d) ==
    IF d = "toConn" THEN beEOF \/ stream = "closed"
                    ELSE wsPeerErr \/ conn = "closed"

\* A write to the destination fails (and ends the copy) when it is closed or broken.
DstFailed(d) ==
    IF d = "toConn" THEN wsPeerErr \/ conn = "closed"
                    ELSE stream = "closed"

\* Mutant of CopyReturns: the copy goroutine closes its destination when
\* io.Copy returns.
CopyReturnsClosesDst(d) ==
    /\ task[d] = "copying"
    /\ SrcEnded(d) \/ DstFailed(d)
    /\ task' = [task EXCEPT ![d] = "finished"]
    /\ conn' = (IF d = "toConn" THEN "closed" ELSE conn)
    /\ stream' = (IF d = "toBackend" THEN "closed" ELSE stream)
    /\ UNCHANGED <<staticHost, serverState, shutdownC, nreq, req, hpc,
                   finalDestination, dialTarget, streamCloses, response,
                   upgradeCalls, connCloses, logged, doneSends, streamCalls,
                   ppc, pings, pingRes, proxyDone, wsPeerErr, beEOF>>
    /\ UNCHANGED auxOfSrv

\* io.Copy returns.
CopyReturns(d) ==
    /\ task[d] = "copying"
    /\ SrcEnded(d) \/ DstFailed(d)
    /\ task' = [task EXCEPT ![d] = "finished"]
    /\ UNCHANGED <<staticHost, serverState, shutdownC, nreq, req, hpc,
                   finalDestination, dialTarget, stream, streamCloses, response,
                   upgradeCalls, conn, connCloses, logged, doneSends, streamCalls,
                   ppc, pings, pingRes, proxyDone, wsPeerErr, beEOF>>
    /\ UNCHANGED auxOfSrv

\* Mutant of CopySignals: proxyDone is unbuffered, so the send completes only
\* together with Stream's receive.
CopySignalsUnbuffered(d) ==
    /\ task[d] = "finished"
    /\ hpc = "stream"
    /\ hpc' = "sendDone"
    /\ task' = [task EXCEPT ![d] = "sent"]
    /\ UNCHANGED <<staticHost, serverState, shutdownC, nreq, req,
                   finalDestination, dialTarget, stream, streamCloses, response,
                   upgradeCalls, conn, connCloses, logged, doneSends, streamCalls,
                   ppc, pings, pingRes, proxyDone, wsPeerErr, beEOF>>
    /\ UNCHANGED auxOfSrv

\* proxyDone <- struct{}{} on the channel of capacity 2; the goroutine ends.
CopySignals(d) ==
    /\ task[d] = "finished"
    /\ proxyDone < ProxyDoneCap
    /\ proxyDone' = proxyDone + 1
    /\ task' = [task EXCEPT ![d] = "sent"]
    /\ UNCHANGED <<staticHost, serverState, shutdownC, nreq, req, hpc,
                   finalDestination, dialTarget, stream, streamCloses, response,
                   upgradeCalls, conn, connCloses, logged, doneSends, streamCalls,
                   ppc, pings, pingRes, wsPeerErr, beEOF>>
    /\ UNCHANGED auxOfSrv

\* The websocket peer closes or fails, or the read deadline passes.
PeerCloses ==
    /\ conn = "open"
    /\ ~wsPeerErr
    /\ wsPeerErr' = TRUE
    /\ UNCHANGED <<staticHost, serverState, shutdownC, nreq, req, hpc,
                   finalDestination, dialTarget, stream, streamCloses, response,
                   upgradeCalls, conn, connCloses, logged, doneSends, streamCalls,
                   ppc, pings, pingRes, task, proxyDone, beEOF>>
    /\ UNCHANGED auxOfSrv

\* The backend closes its side.
BackendEnds ==
    /\ stream = "open"
    /\ ~beEOF
    /\ beEOF' = TRUE
    /\ UNCHANGED <<staticHost, serverState, shutdownC, nreq, req, hpc,
                   finalDestination, dialTarget, stream, streamCloses, response,
                   upgradeCalls, conn, connCloses, logged, doneSends, streamCalls,
                   ppc, pings, pingRes, task, proxyDone, wsPeerErr>>
    /\ UNCHANGED auxOfSrv

\* ------------------------------------------------------------------ pinger
\* case <-ticker.C
PingerTick ==
    /\ ppc = "select"
    /\ pings < MaxPings
    /\ ppc' = "write"
    /\ UNCHANGED <<staticHost, serverState, shutdownC, nreq, req, hpc,
                   finalDestination, dialTarget, stream, streamCloses, response,
                   upgradeCalls, conn, connCloses, logged, doneSends, streamCalls,
                   pings, pingRes, task, proxyDone, wsPeerErr, beEOF>>
    /\ UNCHANGED auxOfSrv

\* Mutant of PingerWrite: pinger returns when the ping write fails.
PingerWriteExitsOnError(res) ==
    /\ ppc = "write"
    /\ res = "ok" => conn = "open"
    /\ pings' = pings + 1
    /\ pingRes' = res
    /\ ppc' = (IF res = "err" THEN "stopped" ELSE "select")
    /\ UNCHANGED <<staticHost, serverState, shutdownC, nreq, req, hpc,
                   finalDestination, dialTarget, stream, streamCloses, response,
                   upgradeCalls, conn, connCloses, logged, doneSends, streamCalls,
                   task, proxyDone, wsPeerErr, beEOF>>
    /\ UNCHANGED auxOfSrv

\* Mutant of PingerWrite: pinger closes the connection when the ping write fails.
PingerWriteClosesOnError(res) ==
    /\ ppc = "write"
    /\ res = "ok" => conn = "open"
    /\ pings' = pings + 1
    /\ pingRes' = res
    /\ ppc' = "select"
    /\ conn' = (IF res = "err" THEN "closed" ELSE conn)
    /\ connCloses' = (IF res = "err" THEN connCloses + 1 ELSE connCloses)
    /\ UNCHANGED <<staticHost, serverState, shutdownC, nreq, req, hpc,
                   finalDestination, dialTarget, stream, streamCloses, response,
                   upgradeCalls, logged, doneSends, streamCalls,
                   task, proxyDone, wsPeerErr, beEOF>>
    /\ UNCHANGED auxOfSrv

\* ws.WriteControl(PingMessage, ..., now + writeWait) returns, within its
\* deadline; an error is logged and the loop goes on.
PingerWrite(res) ==
    /\ ppc = "write"
    /\ res = "ok" => conn = "open"
    /\ pings' = pings + 1
    /\ pingRes' = res
    /\ ppc' = "select"
    /\ UNCHANGED <<staticHost, serverState, shutdownC, nreq, req, hpc,
                   finalDestination, dialTarget, stream, streamCloses, response,
                   upgradeCalls, conn, connCloses, logged, doneSends, streamCalls,
                   task, proxyDone, wsPeerErr, beEOF>>
    /\ UNCHANGED auxOfSrv

NextSrv ==
    \/ \E r \in Requests : Accept(r)
    \/ ShutdownSignal
    \/ ServerClose
    \/ Resolve
    \/ \E ok \in BOOLEAN : Dial(ok)
    \/ CheckUpgrade
    \/ \E ok \in BOOLEAN : Upgrade(ok)
    \/ Setup
    \/ CallStreamHandler
    \/ StreamRecv
    \/ SendDone
    \/ CloseConn
    \/ CloseStream
    \/ \E d \in Dirs : CopyReturns(d)
    \/ \E d \in Dirs : CopySignals(d)
    \/ PeerCloses
    \/ BackendEnds
    \/ PingerTick
    \/ \E res \in {"ok", "err"} : PingerWrite(res)

Init == InitSrv /\ IdlePre /\ IdleRd /\ IdleHdr /\ IdleKa

Next == NextSrv

Spec == Init /\ [][Next]_vars

\* Go schedules every runnable goroutine: the handler, the copy goroutines and
\* the pinger take their steps.  WriteControl returns within its write
\* deadline.  The ticker fires once per pingPeriod, so between two pings the
\* done case is the only ready case of pinger's select and the send completes
\* (strong fairness).  Nothing is assumed of the peers or of the shutdown.
Fairness ==
    /\ WF_vars(Resolve)
    /\ WF_vars(\E ok \in BOOLEAN : Dial(ok))
    /\ WF_vars(CheckUpgrade)
    /\ WF_vars(\E ok \in BOOLEAN : Upgrade(ok))
    /\ WF_vars(Setup)
    /\ WF_vars(CallStreamHandler)
    /\ WF_vars(StreamRecv)
    /\ SF_vars(SendDone)
    /\ WF_vars(CloseConn)
    /\ WF_vars(CloseStream)
    /\ \A d \in Dirs : WF_vars(CopyReturns(d))
    /\ \A d \in Dirs : WF_vars(CopySignals(d))
    /\ WF_vars(\E res \in {"ok", "err"} : PingerWrite(res))

SpecLive == Init /\ [][Next]_vars /\ Fairness

\* ------------------------------------------------- properties of the server
AcceptAny == \E r \in Requests : Accept(r)

\* The destination ServeHTTP resolves for the request at hand.
Resolved == IF staticHost # "" THEN staticHost ELSE req.hdr

\* C1: Stream returns once either copy direction has finished, whatever the
\* other direction does: from any state where Stream is waiting and io.Copy
\* has returned in one direction, Stream returns, also when the other
\* direction stays blocked on its read for ever.
C1_StreamReturnsOnFirst ==
    (hpc = "stream" /\ \E d \in Dirs : task[d] \in {"finished", "sent"})
        ~> (hpc # "stream")

\* Stream has returned while the other direction is still copying, its source
\* delivering nothing and its ends intact.
C1_Witness ==
    /\ hpc = "sendDone"
    /\ \E d \in Dirs : task[d] = "copying" /\ ~SrcEnded(d) /\ ~DstFailed(d)

\* C2: a dialed BackendConnection and an established UpgradeConnection are
\* each closed exactly once by the time ServeHTTP returns, on every exit path,
\* and never closed twice.
C2_ClosedExactlyOnce ==
    /\ streamCloses <= 1
    /\ connCloses <= 1
    /\ hpc = "returned" =>
         /\ IF stream = "none" THEN streamCloses = 0
                               ELSE stream = "closed" /\ streamCloses = 1
         /\ IF conn = "none" THEN connCloses = 0
                             ELSE conn = "closed" /\ connCloses = 1

\* ServeHTTP has returned from the stream handler's path with both closed.
C2_Witness ==
    /\ hpc = "returned"
    /\ streamCalls = 1
    /\ stream = "closed"
    /\ conn = "closed"

\* C5 as stated: with a static destination, a request that is no upgrade
\* request gets the informational page and no backend dial occurs.
C5_PageWithoutDial ==
    (staticHost # "" /\ hpc = "returned" /\ ~req.upgrade)
        => (response = "page" /\ dialTarget = NoDial)

\* C5 as amended: with a static destination, a request that is no upgrade
\* request makes ServeHTTP dial the static destination first; the page is the
\* response exactly when that dial succeeded (a failed dial ends the request
\* with no response), no upgrade is attempted, no stream handler is invoked,
\* and the dialed connection is closed on return.
C5_PageAfterDial ==
    (staticHost # "" /\ hpc = "returned" /\ ~req.upgrade)
        => /\ dialTarget = staticHost
           /\ (response = "page") <=> (stream # "none")
           /\ (response = "none") <=> (logged = "dial")
           /\ stream \in {"none", "closed"}
           /\ upgradeCalls = 0
           /\ conn = "none"
           /\ streamCalls = 0

\* The page was written, after the dial of the static destination.
C5_Witness ==
    /\ staticHost # ""
    /\ hpc = "returned"
    /\ ~req.upgrade
    /\ response = "page"
    /\ dialTarget = staticHost

\* C6: once the stop signal has been delivered to pinger, pinger is stopped
\* and stays so, and no ping is written any more for that connection.
C6_NoPingAfterStop ==
    [][(doneSends' >= 1 /\ nreq' = nreq) => (ppc' = "stopped" /\ pings' = pings)]_vars

\* The stop signal was delivered to a pinger that had pinged.
C6_Witness ==
    /\ doneSends = 1
    /\ ppc = "stopped"
    /\ pings >= 1
    /\ hpc = "returned"

\* C7: the teardown sends the stop signal exactly once and the send always
\* completes: ServeHTTP blocked on done <- ... is eventually past it, with
\* pinger stopped.
C7_StopSignalDelivered ==
    /\ [](doneSends <= 1)
    /\ []((ppc # "none" /\ hpc \in {"closeConn", "closeStream", "returned"})
            => (doneSends = 1 /\ ppc = "stopped"))
    /\ ((hpc = "sendDone") ~> (hpc # "sendDone" /\ ppc = "stopped"))

\* The teardown is blocked on the send while pinger is inside WriteControl.
C7_Witness ==
    /\ hpc = "sendDone"
    /\ ppc = "write"

\* The request was aborted: no destination, a failed dial or a failed handshake.
Aborted == hpc = "returned" /\ logged \in {"nodest", "dial", "upgrade"}

\* C8: after an aborted request the server is still serving and accepts the
\* next request (unless shutdown was signalled meanwhile), and the server
\* stops serving only once the shutdown signal has been given.
C8_AbortKeepsServing ==
    /\ []((Aborted /\ shutdownC = "open") => serverState = "serving")
    /\ []((Aborted /\ serverState = "serving" /\ nreq < MaxRequests)
            => ENABLED AcceptAny)
    /\ [][serverState' # serverState => shutdownC = "closed"]_vars

\* A request was aborted on a failed dial, the server serving.
C8_Witness ==
    /\ Aborted
    /\ logged = "dial"
    /\ serverState = "serving"
    /\ nreq < MaxRequests

\* C9: the destination is the static destination when that is non-empty and
\* the routing header otherwise; nothing else is ever dialed; with both empty
\* the request ends with no dial, no response, no upgrade and no stream handler.
C9_DestinationResolution ==
    /\ dialTarget \in {NoDial, Resolved}
    /\ (hpc \notin {"idle", "resolve"} /\ Resolved # "") => finalDestination = Resolved
    /\ (hpc \notin {"idle", "resolve"} /\ Resolved = "")
         => /\ hpc = "returned"
            /\ logged = "nodest"
            /\ dialTarget = NoDial
            /\ response = "none"
            /\ upgradeCalls = 0
            /\ streamCalls = 0
            /\ stream = "none"
            /\ conn = "none"
            /\ ppc = "none"

\* A request with neither destination has been aborted.
C9_Witness ==
    /\ hpc = "returned"
    /\ staticHost = ""
    /\ req.hdr = ""
    /\ logged = "nodest"

\* C10: a failed ping write changes nothing but pinger's own position: pinger
\* is back at its select, the connection and the stream handler are as they
\* were, the next tick starts another ping, and pinger stops only by
\* receiving the stop signal.
C10_PingFailureNonFatal ==
    /\ [][(ppc = "write" /\ ppc' # "write" /\ pingRes' = "err")
            => /\ ppc' = "select"
               /\ conn' = conn
               /\ connCloses' = connCloses
               /\ stream' = stream
               /\ hpc' = hpc
               /\ task' = task]_vars
    /\ []((ppc = "select" /\ pingRes = "err" /\ pings < MaxPings)
            => ENABLED PingerTick)
    /\ [][(ppc # "stopped" /\ ppc' = "stopped")
            => (hpc = "sendDone" /\ doneSends' = doneSends + 1)]_vars

\* After a failed ping write, pinger is writing the next ping, the connection
\* open and the stream handler running.
C10_Witness ==
    /\ pingRes = "err"
    /\ ppc = "write"
    /\ conn = "open"
    /\ hpc = "stream"

\* C14: Stream closes neither endpoint: from the call of the stream handler
\* to its return no step changes the status of either connection, and a
\* connection is closed only by ServeHTTP's own deferred calls, also while a
\* copy goroutine is still running.
C14_StreamClosesNothing ==
    /\ [][(hpc = "call" \/ hpc = "stream")
            => (conn' = conn /\ stream' = stream
                /\ connCloses' = connCloses /\ streamCloses' = streamCloses)]_vars
    /\ [][((conn' # conn \/ connCloses' # connCloses) /\ conn # "none" /\ nreq' = nreq)
            => (hpc = "closeConn" /\ connCloses' = connCloses + 1)]_vars
    /\ [][((stream' # stream \/ streamCloses' # streamCloses) /\ stream # "none"
             /\ nreq' = nreq)
            => (hpc = "closeStream" /\ streamCloses' = streamCloses + 1)]_vars

\* Stream has returned after a copy direction ended, both connections open.
C14_Witness ==
    /\ hpc = "sendDone"
    /\ \E d \in Dirs : task[d] = "sent"
    /\ conn = "open"
    /\ stream = "open"
    /\ connCloses = 0
    /\ streamCloses = 0

\* What belongs to the request being handled.
requestVars == <<req, hpc, finalDestination, dialTarget, stream, streamCloses,
                 response, upgradeCalls, conn, connCloses, logged, doneSends,
                 streamCalls, ppc, pings, pingRes, task, proxyDone, wsPeerErr, beEOF>>

\* C15: the shutdown signal closes the server, which then accepts no request;
\* closing it changes nothing of a request whose stream handler is running,
\* and such a stream handler returns only after a side of its own bridge has ended
\* and a copy goroutine has signalled it.
C15_ShutdownSparesHandlers ==
    /\ [][serverState' # serverState
            => (shutdownC = "closed" /\ serverState' = "closed"
                /\ (hpc = "stream" => UNCHANGED requestVars))]_vars
    /\ [](serverState = "closed" => ~ENABLED AcceptAny)
    /\ [][(serverState = "closed" /\ hpc = "stream" /\ hpc' # "stream")
            => (hpc' = "sendDone"
                /\ \E d \in Dirs : task[d] = "sent" /\ (SrcEnded(d) \/ DstFailed(d)))]_vars

\* The server is closed while the stream handler bridges, nothing ended.
C15_Witness ==
    /\ serverState = "closed"
    /\ hpc = "stream"
    /\ conn = "open"
    /\ stream = "open"
    /\ \A d \in Dirs : task[d] = "copying"
    /\ ppc \in {"select", "write"}

\* C17: the stream handler is invoked at most once per request and only after
\* the destination was resolved, the dial succeeded, the request was an upgrade
\* request and the handshake succeeded; a failed handshake ends the request
\* with no stream handler and no pinger; while the stream handler runs both
\* connections are open for ServeHTTP and pinger is active.
C17_StreamHandlerPreconditions ==
    /\ streamCalls <= 1
    /\ streamCalls = 1
         => /\ Resolved # ""
            /\ finalDestination = Resolved
            /\ dialTarget = Resolved
            /\ stream # "none"
            /\ req.upgrade
            /\ upgradeCalls = 1
            /\ conn # "none"
            /\ logged = "none"
            /\ ppc # "none"
    /\ logged = "upgrade"
         => /\ streamCalls = 0
            /\ ppc = "none"
            /\ conn = "none"
            /\ hpc \in {"closeStream", "returned"}
    /\ hpc = "stream"
         => /\ streamCalls = 1
            /\ conn = "open"
            /\ stream = "open"
            /\ ppc \in {"select", "write"}

\* The stream handler is running.
C17_Witness ==
    /\ hpc = "stream"
    /\ streamCalls = 1
    /\ \A d \in Dirs : task[d] = "copying"
    /\ pings = 1

\* C18: in the teardown the UpgradeConnection is closed only after pinger has
\* received the stop signal and the BackendConnection only after that, so no
\* ping is written to a connection ServeHTTP has closed.
C18_TeardownOrder ==
    /\ [](conn = "closed" => (ppc = "stopped" /\ doneSends = 1))
    /\ []((stream = "closed" /\ conn # "none") => conn = "closed")
    /\ [][(pings' # pings /\ nreq' = nreq) => (conn = "open" /\ connCloses = 0)]_vars

\* The teardown has stopped a pinger that had pinged and is about to close
\* the UpgradeConnection.
C18_Witness ==
    /\ hpc = "closeConn"
    /\ ppc = "stopped"
    /\ pings >= 1
    /\ conn = "open"
    /\ stream = "open"

\* C19: a copy goroutine whose io.Copy has returned can always send its
\* completion signal, also after Stream has returned; and once the teardown
\* has closed both connections, both copy goroutines end.
C19_NoCopyTaskLeaked ==
    /\ [](\A d \in Dirs : task[d] = "finished" => ENABLED CopySignals(d))
    /\ ((hpc = "returned" /\ streamCalls = 1) ~> (\A d \in Dirs : task[d] = "sent"))

\* ServeHTTP has returned, both connections closed, and the direction that
\* still ran has finished and sends its signal with nobody receiving.
C19_Witness ==
    /\ hpc = "returned"
    /\ conn = "closed"
    /\ stream = "closed"
    /\ \E d \in Dirs : task[d] = "finished"
    /\ \E d \in Dirs : task[d] = "sent"
    /\ proxyDone = 0

\* --------------------------------------------------------- SendSSHPreamble
\* A string is a sequence of runs [ch, n]: n times the character ch.  The
\* characters stand for the classes json.Marshal treats differently: "a" is
\* written as it is, "q" (a double quote) as the two bytes \", "lt" (a <) as
\* the six bytes \u003c, "bad" (a byte that is not valid UTF-8) as the six
\* bytes \ufffd, "rep" (the character U+FFFD, three bytes of UTF-8) as it is.
Run(ch, n) == [ch |-> ch, n |-> n]

EscLen(ch) ==
    CASE ch = "a" -> 1 [] ch = "q" -> 2 [] ch = "lt" -> 6 [] ch = "bad" -> 6
      [] ch = "rep" -> 3

\* What json.Marshal writes for a character.
EscTok(ch) ==
    CASE ch = "a" -> "a" [] ch = "q" -> "\\\"" [] ch = "lt" -> "\\u003c"
      [] ch = "bad" -> "\\ufffd" [] ch = "rep" -> "U+FFFD"

\* The body of a JSON string: the escaped characters, run by run.
Escape(s) == [i \in 1 .. Len(s) |-> [tok |-> EscTok(s[i].ch), n |-> s[i].n]]

\* payload of payload, err := json.Marshal(SSHPreamble{destination, token})
Marshal(dest, token) == [Destination |-> Escape(dest), JWT |-> Escape(token)]

RECURSIVE JSONBodyLen(_)
JSONBodyLen(s) ==
    IF s = <<>> THEN 0
    ELSE Head(s).n * EscLen(Head(s).ch) + JSONBodyLen(Tail(s))

\* len(payload) of payload, err := json.Marshal(SSHPreamble{destination, token}):
\* {"Destination":"...","JWT":"..."}
MarshalLen(dest, token) ==
    Len("{\"Destination\":\"") + JSONBodyLen(dest)
      + Len("\",\"JWT\":\"") + JSONBodyLen(token) + Len("\"}")

\* ^uint16(0)
MaxU16 == 65535
\* uint16(x)
U16(x) == x % (MaxU16 + 1)
\* sshserver.SSHPreambleLength
SSHPreambleLength == 2

\* uint16(len(payload)) > ^uint16(0)
TooLarge(len) == U16(len) > MaxU16

\* Mutant of SizeBytes: the length is written low byte first.
SizeBytesLittleEndian(len) == <<U16(len) % 256, U16(len) \div 256>>

\* binary.BigEndian.PutUint16(sizeBytes, uint16(len(payload)))
SizeBytes(len) == <<U16(len) \div 256, U16(len) % 256>>

\* The lengths of the runs tried: around the 16-bit limit, the JSON of an
\* empty pair taking MarshalLen(<<>>, <<>>) bytes.
PLens == {1, 2, MaxU16 - MarshalLen(<<>>, <<>>), MaxU16 - MarshalLen(<<>>, <<>>) + 1,
          MaxU16 + 1}
PChars == {"a", "q", "lt", "bad", "rep"}
PStrings == {<<>>} \cup {<<Run(c, n)>> : c \in PChars, n \in PLens}

InitPre ==
    /\ pDest \in PStrings
    /\ pToken \in PStrings
    /\ ppos = "call"
    /\ pWire = [size |-> <<>>, payload |-> 0]
    /\ pErr = "pending"
    /\ pRecv = NoRecv

auxOfPre == <<srvVars, rdVars, hdrVars, kaVars>>

\* The bytes the stream has received.
WireBytes == Len(pWire.size) + pWire.payload

\* json.Marshal (which does not fail on two strings) and the size check.
PreMarshal ==
    /\ ppos = "call"
    /\ IF TooLarge(MarshalLen(pDest, pToken))
         THEN /\ pErr' = "too large"
              /\ ppos' = "returned"
         ELSE /\ ppos' = "writeSize"
              /\ UNCHANGED pErr
    /\ UNCHANGED <<pDest, pToken, pWire, pRecv>>
    /\ UNCHANGED auxOfPre

\* stream.Write(sizeBytes): all of it, or an error after the first n bytes.
PreWriteSize(ok, n) ==
    /\ ppos = "writeSize"
    /\ IF ok
         THEN /\ pWire' = [pWire EXCEPT !.size = SizeBytes(MarshalLen(pDest, pToken))]
              /\ ppos' = "writePayload"
              /\ UNCHANGED pErr
         ELSE /\ n < SSHPreambleLength
              /\ pWire' = [pWire EXCEPT
                             !.size = SubSeq(SizeBytes(MarshalLen(pDest, pToken)), 1, n)]
              /\ pErr' = "write"
              /\ ppos' = "returned"
    /\ UNCHANGED <<pDest, pToken, pRecv>>
    /\ UNCHANGED auxOfPre

\* Mutant of PreWritePayload: the error of the second write is dropped.
PreWritePayloadDropsError(ok, n) ==
    /\ ppos = "writePayload"
    /\ IF ok
         THEN pWire' = [pWire EXCEPT !.payload = MarshalLen(pDest, pToken)]
         ELSE /\ n < MarshalLen(pDest, pToken)
              /\ pWire' = [pWire EXCEPT !.payload = n]
    /\ pErr' = "nil"
    /\ ppos' = "returned"
    /\ UNCHANGED <<pDest, pToken, pRecv>>
    /\ UNCHANGED auxOfPre

\* stream.Write(payload): all of it, or an error after the first n bytes.
PreWritePayload(ok, n) ==
    /\ ppos = "writePayload"
    /\ IF ok
         THEN /\ pWire' = [pWire EXCEPT !.payload = MarshalLen(pDest, pToken)]
              /\ pErr' = "nil"
         ELSE /\ n < MarshalLen(pDest, pToken)
              /\ pWire' = [pWire EXCEPT !.payload = n]
              /\ pErr' = "write"
    /\ ppos' = "returned"
    /\ UNCHANGED <<pDest, pToken, pRecv>>
    /\ UNCHANGED auxOfPre

\* The character a JSON decoder reads from an escaped character.
UnescTok(t) ==
    CASE t = "a" -> "a" [] t = "\\\"" -> "q" [] t = "\\u003c" -> "lt"
      [] t = "\\ufffd" -> "rep" [] t = "U+FFFD" -> "rep"

Unescape(body) == [i \in 1 .. Len(body) |-> Run(UnescTok(body[i].tok), body[i].n)]

\* The reader of the stream: it reads the two size bytes as a big-endian
\* number v, then v bytes, and decodes them as the JSON of a preamble.  Of the
\* payload json, written by the sender, the stream holds the first
\* wire.payload of its len bytes.
ReadPreamble(wire, json, len) ==
    IF Len(wire.size) < SSHPreambleLength
      THEN [ok |-> FALSE, why |-> "short size"]
    ELSE LET v == wire.size[1] * 256 + wire.size[2] IN
      IF wire.payload < v THEN [ok |-> FALSE, why |-> "short payload"]
      ELSE IF v # len THEN [ok |-> FALSE, why |-> "bad json"]
      ELSE [ok |-> TRUE, dest |-> Unescape(json.Destination),
            token |-> Unescape(json.JWT)]

\* The peer reads what SendSSHPreamble left on the stream.
PreDecode ==
    /\ ppos = "returned"
    /\ pErr # "too large"
    /\ pRecv = NoRecv
    /\ pRecv' = ReadPreamble(pWire, Marshal(pDest, pToken), MarshalLen(pDest, pToken))
    /\ UNCHANGED <<pDest, pToken, ppos, pWire, pErr>>
    /\ UNCHANGED auxOfPre

NextPre ==
    \/ PreMarshal
    \/ \E ok \in BOOLEAN, n \in 0 .. SSHPreambleLength : PreWriteSize(ok, n)
    \/ \E ok \in BOOLEAN, n \in {0, 1, SSHPreambleLength} : PreWritePayload(ok, n)
    \/ PreDecode

InitPreamble == IdleSrv /\ InitPre /\ IdleRd /\ IdleHdr /\ IdleKa

SpecPreamble == InitPreamble /\ [][NextPre]_vars

\* C3: SendSSHPreamble fails with the size error whenever the JSON is longer
\* than 65535 bytes: past the size check it has returned that error, and the
\* stream has received nothing.
C3_TooLargeRejected ==
    MarshalLen(pDest, pToken) > MaxU16
        => /\ WireBytes = 0
           /\ ppos # "call" => (ppos = "returned" /\ pErr = "too large")

\* What SendSSHPreamble is to put on the stream: the two size bytes and the
\* whole payload.
WireComplete ==
    /\ pWire.size = SizeBytes(MarshalLen(pDest, pToken))
    /\ pWire.payload = MarshalLen(pDest, pToken)

\* C12 as stated: whatever SendSSHPreamble returns, the stream has received
\* nothing or the complete size prefix followed by the complete payload.
C12_NeverPartial ==
    ppos = "returned" => (WireBytes = 0 \/ WireComplete)

\* C12 as amended: nothing is written before the size check has passed; a
\* nil return means the complete prefix and payload were written; the size
\* error means nothing was; the error of a write means a proper prefix of the
\* preamble was written, payload bytes only after the whole size prefix.
C12_PartialOnlyOnWriteError ==
    /\ ppos \in {"call", "writeSize"} => WireBytes = 0
    /\ ppos = "returned"
         => /\ pErr \in {"nil", "too large", "write"}
            /\ pErr = "nil" => WireComplete
            /\ pErr = "too large" => WireBytes = 0
            /\ pErr = "write"
                 => /\ WireBytes < SSHPreambleLength + MarshalLen(pDest, pToken)
                    /\ pWire.size = SubSeq(SizeBytes(MarshalLen(pDest, pToken)),
                                           1, Len(pWire.size))
                    /\ pWire.payload > 0 => Len(pWire.size) = SSHPreambleLength

\* The second write failed after a part of the payload: the stream holds the
\* size prefix and one byte of JSON.
C12_Witness ==
    /\ ppos = "returned"
    /\ pErr = "write"
    /\ Len(pWire.size) = SSHPreambleLength
    /\ pWire.payload = 1

\* A string json.Marshal encodes without replacing anything: valid UTF-8.
RECURSIVE ValidUTF8(_)
ValidUTF8(s) == s = <<>> \/ (Head(s).ch # "bad" /\ ValidUTF8(Tail(s)))

\* The size prefix holds the length of the payload, all of the payload is on
\* the stream, and its reader has the pair SendSSHPreamble was called with.
RoundTrip ==
    /\ pWire.size[1] * 256 + pWire.size[2] = MarshalLen(pDest, pToken)
    /\ pWire.payload = MarshalLen(pDest, pToken)
    /\ pRecv # NoRecv => pRecv = [ok |-> TRUE, dest |-> pDest, token |-> pToken]

\* C13 as stated: for every pair whose JSON is at most 65535 bytes the prefix
\* is the big-endian length of the JSON that follows and the reader recovers
\* the pair.
C13_RoundTripAll ==
    (ppos = "returned" /\ pErr = "nil" /\ MarshalLen(pDest, pToken) <= MaxU16)
        => RoundTrip

\* C13 as amended: the same for every pair of valid UTF-8 strings.
C13_RoundTripValidUTF8 ==
    (ppos = "returned" /\ pErr = "nil" /\ MarshalLen(pDest, pToken) <= MaxU16
       /\ ValidUTF8(pDest) /\ ValidUTF8(pToken))
        => RoundTrip

\* A pair whose JSON is exactly 65535 bytes was written, with the size bytes
\* 255, 255, and read back.
C13_Witness ==
    /\ ppos = "returned"
    /\ pErr = "nil"
    /\ MarshalLen(pDest, pToken) = MaxU16
    /\ pDest # <<>>
    /\ pWire.size = <<255, 255>>
    /\ pRecv = [ok |-> TRUE, dest |-> pDest, token |-> pToken]


\* ---------------------------------------------------------------- Conn.Read
\* The longest message, the number of messages, the largest read buffer.
MaxMsgLen == 3
MaxMsgs == 2
MaxBuf == 2

Bytes == {0, 1}

RECURSIVE SeqsUpTo(_, _)
\* The sequences over S of length at most n.
SeqsUpTo(S, n) ==
    IF n = 0 THEN {<<>>}
    ELSE LET shorter == SeqsUpTo(S, n - 1)
         IN  shorter \cup {Append(s, x) : s \in shorter, x \in S}

Messages == SeqsUpTo(Bytes, MaxMsgLen)

InitRd ==
    /\ rIncoming \in SeqsUpTo(Messages, MaxMsgs)
    /\ rMessages = <<>>
    /\ rOut = <<>>
    /\ rLast = [n |-> 0, err |-> FALSE]
    /\ rCalls = 0

auxOfRd == <<srvVars, preVars, hdrVars, kaVars>>

Min(a, b) == IF a < b THEN a ELSE b

\* copy(p, message) with len(p) = k: the bytes that reach p.
Copied(k, message) == SubSeq(message, 1, Min(k, Len(message)))

\* Read(p) with len(p) = k: one ReadMessage, then copy(p, message).  With no
\* message left the peer has closed and ReadMessage returns an error.
ConnRead(k) ==
    /\ ~rLast.err
    /\ rCalls' = rCalls + 1
    /\ IF rIncoming = <<>>
         THEN /\ rLast' = [n |-> 0, err |-> TRUE]
              /\ UNCHANGED <<rIncoming, rMessages, rOut>>
         ELSE /\ rIncoming' = Tail(rIncoming)
              /\ rMessages' = rMessages \o Head(rIncoming)
              /\ rOut' = rOut \o Copied(k, Head(rIncoming))
              /\ rLast' = [n |-> Len(Copied(k, Head(rIncoming))), err |-> FALSE]
    /\ UNCHANGED auxOfRd

NextRd == \E k \in 1 .. MaxBuf : ConnRead(k)

InitRead == IdleSrv /\ IdlePre /\ InitRd /\ IdleHdr /\ IdleKa

SpecRead == InitRead /\ [][NextRd]_vars

\* C4: the bytes successive Read calls return, concatenated, are the payloads
\* of the messages read, concatenated in arrival order.
C4_ContinuousByteStream == rOut = rMessages

\* ------------------------------------------------------- websocketHeaders
\* A header key is a name in some capitalisation: canon tells whether it is
\* the canonical one (Sec-Websocket-Key) or another (sec-websocket-key).
HeaderKey(name, canon) == [name |-> name, canon |-> canon]

\* textproto.CanonicalMIMEHeaderKey
CanonicalMIMEHeaderKey(k) == HeaderKey(k.name, TRUE)

\* The five names, written in canonical capitalisation in the source.
stripWebsocketHeaders ==
    <<HeaderKey("Upgrade", TRUE), HeaderKey("Connection", TRUE),
      HeaderKey("Sec-Websocket-Key", TRUE), HeaderKey("Sec-Websocket-Version", TRUE),
      HeaderKey("Sec-Websocket-Extensions", TRUE)>>

StripNames == {stripWebsocketHeaders[i].name : i \in DOMAIN stripWebsocketHeaders}
HostKey == HeaderKey("Host", TRUE)

HeaderNames == StripNames \cup {"Host", "X-Forwarded-For"}
HeaderKeys == [name : HeaderNames, canon : BOOLEAN]
HeaderValues == {<<"v">>, <<"w">>}
ReqHosts == {"a.example", "b.example"}
HeaderSets ==
    UNION {[K -> HeaderValues] : K \in {S \in SUBSET HeaderKeys : Cardinality(S) <= MaxHeaders}}

\* http.Header.Del: delete(h, CanonicalMIMEHeaderKey(key))
Del(h, key) ==
    [k \in DOMAIN h \ {CanonicalMIMEHeaderKey(key)} |-> h[k]]

\* http.Header.Set: h[CanonicalMIMEHeaderKey(key)] = []string{value}
Set(h, key, value) ==
    LET c == CanonicalMIMEHeaderKey(key) IN
    [k \in DOMAIN h \cup {c} |-> IF k = c THEN <<value>> ELSE h[k]]

InitHdr ==
    /\ hReq \in HeaderSets
    /\ hHost \in ReqHosts
    /\ hOut = NoHeaders
    /\ hpos = "call"
    /\ hi = 0

auxOfHdr == <<srvVars, preVars, rdVars, kaVars>>

\* wsHeaders := make(http.Header) and the loop that copies every entry of
\* req.Header under the key it has there.
HdrCopy ==
    /\ hpos = "call"
    /\ hOut' = [k \in DOMAIN hReq |-> hReq[k]]
    /\ hi' = 1
    /\ hpos' = "strip"
    /\ UNCHANGED <<hReq, hHost>>
    /\ UNCHANGED auxOfHdr

\* One round of the loop over stripWebsocketHeaders.
HdrDel ==
    /\ hpos = "strip"
    /\ hOut' = Del(hOut, stripWebsocketHeaders[hi])
    /\ IF hi < Len(stripWebsocketHeaders)
         THEN /\ hi' = hi + 1
              /\ UNCHANGED hpos
         ELSE /\ hpos' = "setHost"
              /\ UNCHANGED hi
    /\ UNCHANGED <<hReq, hHost>>
    /\ UNCHANGED auxOfHdr

\* Mutant of HdrSetHost: Add in the place of Set, which appends to the values
\* the key has.
HdrSetHostAdds ==
    /\ hpos = "setHost"
    /\ hOut' = [k \in DOMAIN hOut \cup {HostKey} |->
                  IF k # HostKey THEN hOut[k]
                  ELSE IF HostKey \in DOMAIN hOut THEN Append(hOut[HostKey], hHost)
                  ELSE <<hHost>>]
    /\ hpos' = "returned"
    /\ UNCHANGED <<hReq, hHost, hi>>
    /\ UNCHANGED auxOfHdr

\* wsHeaders.Set("Host", req.Host); return wsHeaders
HdrSetHost ==
    /\ hpos = "setHost"
    /\ hOut' = Set(hOut, HostKey, hHost)
    /\ hpos' = "returned"
    /\ UNCHANGED <<hReq, hHost, hi>>
    /\ UNCHANGED auxOfHdr

NextHdr == HdrCopy \/ HdrDel \/ HdrSetHost

InitHeaders == IdleSrv /\ IdlePre /\ IdleRd /\ InitHdr /\ IdleKa

SpecHeaders == InitHeaders /\ [][NextHdr]_vars

\* The result has the request's host under Host, every header of the request
\* whose key is not among Exempt under the same key with the same values, and
\* nothing else outside Exempt.
CarriedOver(Exempt) ==
    /\ HostKey \in DOMAIN hOut
    /\ hOut[HostKey] = <<hHost>>
    /\ \A k \in HeaderKeys \ (Exempt \cup {HostKey}) :
         /\ k \in DOMAIN hOut <=> k \in DOMAIN hReq
         /\ k \in DOMAIN hReq => hOut[k] = hReq[k]

\* C16 as stated: for every header set the result holds none of the five
\* negotiation headers under any capitalisation, Host is the request's host,
\* every other header is carried over unchanged and the request's header set
\* is never modified.
C16_StrippedAnyCase ==
    /\ [](hpos = "returned"
            => /\ \A k \in DOMAIN hOut : k.name \notin StripNames
               /\ CarriedOver({k \in HeaderKeys : k.name \in StripNames}))
    /\ [][hReq' = hReq]_vars

\* C16 as amended: the result holds none of the five negotiation headers
\* under their canonical key; a negotiation header (or a host header) under a
\* key in another capitalisation is carried over like every other header.
C16_StrippedCanonical ==
    /\ [](hpos = "returned"
            => /\ \A i \in DOMAIN stripWebsocketHeaders :
                    stripWebsocketHeaders[i] \notin DOMAIN hOut
               /\ CarriedOver({stripWebsocketHeaders[i] :
                                 i \in DOMAIN stripWebsocketHeaders}))
    /\ [][hReq' = hReq]_vars

\* A request with Upgrade under its canonical key, a connection header under
\* another capitalisation and its own Host header: the first is gone, the
\* second is kept, the third is replaced.
C16_Witness ==
    /\ hpos = "returned"
    /\ DOMAIN hReq = {HeaderKey("Upgrade", TRUE), HeaderKey("Connection", FALSE), HostKey}
    /\ hReq[HostKey] # <<hHost>>
    /\ DOMAIN hOut = {HeaderKey("Connection", FALSE), HostKey}
    /\ hOut[HostKey] = <<hHost>>

\* ------------------------------------------------------ the read deadline
\* ServeHTTP from the successful Upgrade on, with a clock in seconds: who sets
\* the read deadline of the UpgradeConnection, when, and to what.
writeWait == 10
pongWait == 60
pingPeriod == (pongWait * 9) \div 10

\* The steps by which the clock advances.
Delays == {writeWait, pingPeriod}

InitKa ==
    /\ khpc = "arm"
    /\ KaRequest

auxOfKa == <<srvVars, preVars, rdVars, hdrVars>>

\* Time passes.
KAdvance(dt) ==
    /\ khpc \notin {"off", "returned"}
    /\ kNow + dt <= MaxTime
    /\ kNow' = kNow + dt
    /\ UNCHANGED <<kDeadline, khpc, kppc, krpc, kwpc, kPongHandler, kNextPing,
                   kWriteBy, kPongs, kInFlight, kPongAt, kArg, kIn, kWriters>>
    /\ UNCHANGED auxOfKa

\* conn.SetReadDeadline(time.Now().Add(pongWait)) in ServeHTTP: the argument is
\* computed and the call entered.
KArmBegin ==
    /\ khpc = "arm"
    /\ kArg' = [kArg EXCEPT !["handler"] = kNow + pongWait]
    /\ kIn' = kIn \cup {"handler"}
    /\ khpc' = "arming"
    /\ UNCHANGED <<kNow, kDeadline, kppc, krpc, kwpc, kPongHandler, kNextPing,
                   kWriteBy, kPongs, kInFlight, kPongAt, kWriters>>
    /\ UNCHANGED auxOfKa

\* The call sets the deadline and returns.
KArmEnd ==
    /\ khpc = "arming"
    /\ kDeadline' = kArg["handler"]
    /\ kArg' = [kArg EXCEPT !["handler"] = 0]
    /\ kIn' = kIn \ {"handler"}
    /\ kWriters' = kWriters \cup {<<"handler", "ServeHTTP">>}
    /\ khpc' = "setPong"
    /\ UNCHANGED <<kNow, kppc, krpc, kwpc, kPongHandler, kNextPing, kWriteBy,
                   kPongs, kInFlight, kPongAt>>
    /\ UNCHANGED auxOfKa

\* conn.SetPongHandler(...)
KSetPongHandler ==
    /\ khpc = "setPong"
    /\ kPongHandler' = TRUE
    /\ khpc' = "goPinger"
    /\ UNCHANGED <<kNow, kDeadline, kppc, krpc, kwpc, kNextPing, kWriteBy,
                   kPongs, kInFlight, kPongAt, kArg, kIn, kWriters>>
    /\ UNCHANGED auxOfKa

\* done := make(chan struct{}); go pinger(h.logger, conn, done)
KGoPinger ==
    /\ khpc = "goPinger"
    /\ kppc' = "start"
    /\ khpc' = "call"
    /\ UNCHANGED <<kNow, kDeadline, krpc, kwpc, kPongHandler, kNextPing,
                   kWriteBy, kPongs, kInFlight, kPongAt, kArg, kIn, kWriters>>
    /\ UNCHANGED auxOfKa

\* h.streamHandler(&Conn{conn}, stream, r.Header): Stream starts its two copy
\* goroutines, one of which reads the UpgradeConnection.
KCallStream ==
    /\ khpc = "call"
    /\ krpc' = "read"
    /\ kwpc' = "copy"
    /\ khpc' = "stream"
    /\ UNCHANGED <<kNow, kDeadline, kppc, kPongHandler, kNextPing, kWriteBy,
                   kPongs, kInFlight, kPongAt, kArg, kIn, kWriters>>
    /\ UNCHANGED auxOfKa

\* ticker := time.NewTicker(pingPeriod)
KNewTicker ==
    /\ kppc = "start"
    /\ kNextPing' = kNow + pingPeriod
    /\ kppc' = "select"
    /\ UNCHANGED <<kNow, kDeadline, khpc, krpc, kwpc, kPongHandler, kWriteBy,
                   kPongs, kInFlight, kPongAt, kArg, kIn, kWriters>>
    /\ UNCHANGED auxOfKa

\* case <-ticker.C: WriteControl is called with the deadline
\* time.Now().Add(writeWait).
KTick ==
    /\ kppc = "select"
    /\ kNow >= kNextPing
    /\ kNextPing' = kNextPing + pingPeriod
    /\ kWriteBy' = kNow + writeWait
    /\ kppc' = "write"
    /\ UNCHANGED <<kNow, kDeadline, khpc, krpc, kwpc, kPongHandler, kPongs,
                   kInFlight, kPongAt, kArg, kIn, kWriters>>
    /\ UNCHANGED auxOfKa

\* Mutant of KPingWrite: pinger refreshes the read deadline after a ping.
KPingWriteRefreshes(res) ==
    /\ kppc = "write"
    /\ kNow > kWriteBy => res = "err"
    /\ kDeadline' = kNow + pongWait
    /\ kWriters' = kWriters \cup {<<"pinger", "pinger">>}
    /\ kWriteBy' = 0
    /\ kppc' = "select"
    /\ UNCHANGED <<kNow, khpc, krpc, kwpc, kPongHandler, kNextPing, kPongs,
                   kInFlight, kPongAt, kArg, kIn>>
    /\ UNCHANGED auxOfKa

\* WriteControl returns: an error when its deadline has passed or the write
\* failed; pinger logs it and goes on.
KPingWrite(res) ==
    /\ kppc = "write"
    /\ kNow > kWriteBy => res = "err"
    /\ kWriteBy' = 0
    /\ kppc' = "select"
    /\ UNCHANGED <<kNow, kDeadline, khpc, krpc, kwpc, kPongHandler, kNextPing,
                   kPongs, kInFlight, kPongAt, kArg, kIn, kWriters>>
    /\ UNCHANGED auxOfKa

\* The peer sends a pong, in answer to a ping or unsolicited.
KPeerPong ==
    /\ khpc = "stream"
    /\ kPongs < MaxPongs
    /\ kPongs' = kPongs + 1
    /\ kInFlight' = kInFlight + 1
    /\ UNCHANGED <<kNow, kDeadline, khpc, kppc, krpc, kwpc, kPongHandler,
                   kNextPing, kWriteBy, kPongAt, kArg, kIn, kWriters>>
    /\ UNCHANGED auxOfKa

\* ReadMessage, called by Conn.Read, reads a pong before its deadline.
KPongReceived ==
    /\ krpc = "read"
    /\ kPongHandler
    /\ kInFlight > 0
    /\ kDeadline = 0 \/ kNow <= kDeadline
    /\ kInFlight' = kInFlight - 1
    /\ kPongAt' = kNow
    /\ krpc' = "pong"
    /\ UNCHANGED <<kNow, kDeadline, khpc, kppc, kwpc, kPongHandler, kNextPing,
                   kWriteBy, kPongs, kArg, kIn, kWriters>>
    /\ UNCHANGED auxOfKa

\* Mutant of KPongCallbackBegin: the callback extends the deadline by
\* pingPeriod.
KPongCallbackShort ==
    /\ krpc = "pong"
    /\ kArg' = [kArg EXCEPT !["reader"] = kNow + pingPeriod]
    /\ kIn' = kIn \cup {"reader"}
    /\ krpc' = "set"
    /\ UNCHANGED <<kNow, kDeadline, khpc, kppc, kwpc, kPongHandler, kNextPing,
                   kWriteBy, kPongs, kInFlight, kPongAt, kWriters>>
    /\ UNCHANGED auxOfKa

\* The pong callback, run by the reading goroutine: the argument of
\* conn.SetReadDeadline(time.Now().Add(pongWait)) is computed and the call entered.
KPongCallbackBegin ==
    /\ krpc = "pong"
    /\ kArg' = [kArg EXCEPT !["reader"] = kNow + pongWait]
    /\ kIn' = kIn \cup {"reader"}
    /\ krpc' = "set"
    /\ UNCHANGED <<kNow, kDeadline, khpc, kppc, kwpc, kPongHandler, kNextPing,
                   kWriteBy, kPongs, kInFlight, kPongAt, kWriters>>
    /\ UNCHANGED auxOfKa

\* The call sets the deadline and returns; ReadMessage goes on reading.
KPongCallbackEnd ==
    /\ krpc = "set"
    /\ kDeadline' = kArg["reader"]
    /\ kArg' = [kArg EXCEPT !["reader"] = 0]
    /\ kPongAt' = 0
    /\ kIn' = kIn \ {"reader"}
    /\ kWriters' = kWriters \cup {<<"reader", "pong callback">>}
    /\ krpc' = "read"
    /\ UNCHANGED <<kNow, khpc, kppc, kwpc, kPongHandler, kNextPing, kWriteBy,
                   kPongs, kInFlight>>
    /\ UNCHANGED auxOfKa

\* ReadMessage fails once the read deadline has passed.
KReadTimeout ==
    /\ krpc = "read"
    /\ kDeadline # 0
    /\ kNow > kDeadline
    /\ krpc' = "ended"
    /\ UNCHANGED <<kNow, kDeadline, khpc, kppc, kwpc, kPongHandler, kNextPing,
                   kWriteBy, kPongs, kInFlight, kPongAt, kArg, kIn, kWriters>>
    /\ UNCHANGED auxOfKa

\* ReadMessage fails: the peer closed, or ServeHTTP closed the connection.
KReadFails ==
    /\ krpc = "read"
    /\ krpc' = "ended"
    /\ UNCHANGED <<kNow, kDeadline, khpc, kppc, kwpc, kPongHandler, kNextPing,
                   kWriteBy, kPongs, kInFlight, kPongAt, kArg, kIn, kWriters>>
    /\ UNCHANGED auxOfKa

\* io.Copy(conn, backendConn) returns.
KBackendEnds ==
    /\ kwpc = "copy"
    /\ kwpc' = "ended"
    /\ UNCHANGED <<kNow, kDeadline, khpc, kppc, krpc, kPongHandler, kNextPing,
                   kWriteBy, kPongs, kInFlight, kPongAt, kArg, kIn, kWriters>>
    /\ UNCHANGED auxOfKa

\* Stream returns after a copy goroutine ended; ServeHTTP's deferred function
\* stops pinger and closes the connection.
KTeardown ==
    /\ khpc = "stream"
    /\ krpc = "ended" \/ kwpc = "ended"
    /\ kppc = "select"
    /\ kppc' = "stopped"
    /\ khpc' = "returned"
    /\ UNCHANGED <<kNow, kDeadline, krpc, kwpc, kPongHandler, kNextPing,
                   kWriteBy, kPongs, kInFlight, kPongAt, kArg, kIn, kWriters>>
    /\ UNCHANGED auxOfKa

NextKa ==
    \/ \E dt \in Delays : KAdvance(dt)
    \/ KArmBegin
    \/ KArmEnd
    \/ KSetPongHandler
    \/ KGoPinger
    \/ KCallStream
    \/ KNewTicker
    \/ KTick
    \/ \E res \in {"ok", "err"} : KPingWrite(res)
    \/ KPeerPong
    \/ KPongReceived
    \/ KPongCallbackBegin
    \/ KPongCallbackEnd
    \/ KReadTimeout
    \/ KReadFails
    \/ KBackendEnds
    \/ KTeardown

InitKeepalive == IdleSrv /\ IdlePre /\ IdleRd /\ IdleHdr /\ InitKa

SpecKeepalive == InitKeepalive /\ [][NextKa]_vars

\* C11: when the pong callback has set the read deadline for a pong received
\* at kPongAt, the deadline is at least kPongAt + pongWait, whatever it was;
\* and pingPeriod is less than pongWait.
C11_PongExtendsDeadline ==
    /\ [][(krpc = "set" /\ krpc' = "read") => kDeadline' >= kPongAt + pongWait]_vars
    /\ [](pingPeriod < pongWait)

\* The callback has handled a pong received after the first ping period and
\* the connection is read past the deadline ServeHTTP had set.
C11_Witness ==
    /\ krpc = "read"
    /\ <<"reader", "pong callback">> \in kWriters
    /\ kDeadline = pingPeriod + pongWait
    /\ kNow > pongWait
    /\ kNow <= kDeadline

\* C20 as stated: only the pong callback sets the read deadline, and no two
\* calls that set it overlap.
C20_OnlyPongCallback ==
    /\ kWriters \subseteq {<<"reader", "pong callback">>}
    /\ Cardinality(kIn) <= 1

\* C20 as amended: ServeHTTP sets the deadline once, before it installs the
\* pong callback and before pinger and the copy goroutines exist; every later
\* change is made by the pong callback, in the goroutine that reads the
\* connection; no two calls that set it overlap.
C20_SetupThenPongCallback ==
    /\ [](kWriters \subseteq {<<"handler", "ServeHTTP">>, <<"reader", "pong callback">>})
    /\ []("handler" \in kIn
            => (~kPongHandler /\ kppc = "none" /\ krpc = "none" /\ kwpc = "none"))
    /\ [][kDeadline' # kDeadline
            => \/ khpc = "arming" /\ khpc' = "setPong" /\ kDeadline = 0
               \/ krpc = "set" /\ krpc' = "read" /\ khpc \in {"stream", "returned"}]_vars
    /\ [](Cardinality(kIn) <= 1)

\* ServeHTTP and the pong callback have both set the deadline, and the ping
\* that came in between did not.
C20_Witness ==
    /\ kWriters = {<<"handler", "ServeHTTP">>, <<"reader", "pong callback">>}
    /\ kppc = "select"
    /\ kNextPing > pingPeriod
    /\ kDeadline > pongWait
    /\ kIn = {}

====
